---------------------------- MODULE Spec2Model ----------------------------
(***************************************************************************)
(* A model of the IOCP hand-off traits: ContainerOf (container_of.rs),     *)
(* EventState / Dispatch / EventHandler (iocp.rs) and the callers shown in *)
(* main.rs (the sample handlers PipeRead and AfdPoll, the dispatch /       *)
(* overlapped / pending / failed protocol, and the completion loop).       *)
(*                                                                         *)
(* Two execution contexts act on the shared heap: the "caller", which      *)
(* owns handler boxes and Dispatch guards, and the "consumer", which       *)
(* calls EventState::complete for addresses the external API accepted.     *)
(* A panic ends the context that raised it (halted).                       *)
(*                                                                         *)
(* Three specifications: Spec, the protocol main.rs shows; SpecMisuse,     *)
(* which adds a dispatch entered on an armed EventState and completions    *)
(* reported for addresses the external call refused; SpecContainerOf,      *)
(* direct calls of member_offset and container_of_ptr for a range of       *)
(* container / member type pairs.                                          *)
(***************************************************************************)
EXTENDS Integers, Sequences, FiniteSets

\* ------------------------------------------------------------------ bounds
\* Number of handler boxes the caller constructs.
NumHandlers == 2
\* Total number of dispatch() calls (a box that failed() gave back may be
\* dispatched again).
MaxDispatch == 3

Handlers == 1..NumHandlers

\* -------------------------------------------------- the handlers of main.rs
\* main.rs constructs PipeRead{"foo"}, PipeRead{"bar"}, AfdPoll{22},
\* AfdPoll{1234}.  The model numbers them so that a small NumHandlers already
\* holds both kinds: 1 = PipeRead "foo", 2 = AfdPoll 1234, 3 = PipeRead "bar",
\* 4 = AfdPoll 22, and further ones alternate.
Kind(h) == IF h % 2 = 1 THEN "PipeRead" ELSE "AfdPoll"

Text(h) == IF h = 1 THEN "foo" ELSE IF h = 3 THEN "bar" ELSE IF h % 2 = 1 THEN "baz" ELSE ""

Bits(h) == IF h = 2 THEN 1234 ELSE IF h = 4 THEN 22 ELSE IF h % 2 = 0 THEN h ELSE 0

\* ------------------------------------------------------------------ layout
\* Option<NonNull<_>> and Option<Box<_>> use the null niche: None is address 0.
None == 0

\* The result of an operation that panicked instead of returning an address.
Fatal == -1

\* EventState { event_handler: Option<Box<dyn EventHandler>>, overlapped }:
\* a 16-byte fat pointer followed by the 16-byte OVERLAPPED {i64, i32}.
EventStateLayout == [size |-> 32, align |-> 8, field |-> 16, msize |-> 16]

\* Address of the heap allocation Box::new gives handler h.
Base(h) == 64 * h

\* Offset of the `state` field inside the handler struct: PipeRead declares
\* text (a 16-byte &str) before state, AfdPoll declares state first.
StateOffset(kind) == IF kind = "PipeRead" THEN 16 ELSE 0

\* Address of handler h's EventState (EventHandler::state).
StateAddr(h) == Base(h) + StateOffset(Kind(h))

\* Mutant of member_offset: the difference without the two range asserts.
member_offset_unchecked(layout) == layout.field

\* ContainerOf::member_offset for a container with the given layout: addresses
\* of a dangling (align-valued) container and of its member, range asserts,
\* then the difference.
member_offset(layout) ==
  LET container_start_addr == layout.align
      container_end_addr   == container_start_addr + layout.size
      member_start_addr    == container_start_addr + layout.field
      member_end_addr      == member_start_addr + layout.msize
  IN  IF ~(container_start_addr <= member_start_addr) THEN Fatal
      ELSE IF ~(container_end_addr >= member_end_addr) THEN Fatal
      ELSE member_start_addr - container_start_addr

\* Mutant of container_of_ptr: the subtraction without the alignment assert.
container_of_ptr_unaligned(layout, member_addr) ==
  LET off == member_offset(layout)
  IN  IF off = Fatal THEN Fatal
      ELSE IF ~(member_addr > off) THEN Fatal
      ELSE member_addr - off

\* ContainerOf::container_of_ptr: member address minus offset, with the
\* underflow and alignment asserts.
container_of_ptr(layout, member_addr) ==
  LET off == member_offset(layout)
  IN  IF off = Fatal THEN Fatal
      ELSE IF ~(member_addr > off) THEN Fatal
      ELSE IF (member_addr - off) % layout.align # 0 THEN Fatal
      ELSE member_addr - off

\* Mutant of as_overlapped: the EventState's own address is handed out.
as_overlapped_of_state(state_addr) == state_addr

\* EventState::as_overlapped: the address of the embedded OVERLAPPED.
as_overlapped(state_addr) == state_addr + EventStateLayout.field

\* Mutant of from_overlapped: the container address does not depend on the
\* member address handed in (every record address leads to one EventState).
from_overlapped_fixed(overlapped) == StateAddr(1)

\* EventState::from_overlapped: back to the EventState's address.
from_overlapped(overlapped) == container_of_ptr(EventStateLayout, overlapped)

\* The record address dispatching handler h yields.
AddrOf(h) == as_overlapped(StateAddr(h))

\* ------------------------------------------------------------------- state
VARIABLES
  heap,              \* handler h's allocation: alive, payload, ownership slot
  owned,             \* the handler boxes the caller holds
  guards,            \* per handler, the Dispatch values its dispatches created
  succeeded_events,  \* addresses the external API accepted, not yet completed
  completed,         \* per handler, what its complete() printed: one entry per run
  panics,            \* the panics raised, in order
  halted,            \* the contexts a panic has ended
  uaf,               \* some step dereferenced a freed EventState or handler
  probe              \* a ContainerOf implementation under test and its calls' results

vars == <<heap, owned, guards, succeeded_events, completed, panics, halted, uaf, probe>>

\* The program uses one ContainerOf implementation, EventState's, and calls it
\* only from extract_event_handler; no direct call is under way.
NoProbe == [layout |-> EventStateLayout, member |-> None, offsets |-> <<>>, containers |-> <<>>]

\* Option<Box<dyn EventHandler>>: data pointer and vtable; None is the null box.
NoneBox == [ptr |-> None, vtable |-> "none"]

BoxOf(h) == [ptr |-> Base(h), vtable |-> Kind(h)]

\* The handler whose allocation starts at ptr / whose EventState is at addr.
HandlerAt(ptr) == {h \in Handlers : Base(h) = ptr}

AnchorAt(addr) == {h \in Handlers : StateAddr(h) = addr}

\* A guard is named by the handler it was created for and the dispatch round.
GuardIds == {g \in Handlers \X (1..MaxDispatch) : g[2] <= Len(guards[g[1]])}

\* The number of dispatch() calls so far.
RECURSIVE Dispatched(_)
Dispatched(hs) ==
  IF hs = {} THEN 0
  ELSE LET h == CHOOSE x \in hs : TRUE IN Len(guards[h]) + Dispatched(hs \ {h})

G(g) == guards[g[1]][g[2]]

\* ---------------------------------------------------------- initial state
\* After the Box::new calls of main: every handler allocated, its EventState
\* fresh from EventState::new (slot None), all boxes held by the caller.
Init ==
  /\ heap = [h \in Handlers |->
               [alive |-> TRUE, text |-> Text(h), bits |-> Bits(h), slot |-> NoneBox]]
  /\ owned = Handlers
  /\ guards = [h \in Handlers |-> <<>>]
  /\ succeeded_events = {}
  /\ completed = [h \in Handlers |-> <<>>]
  /\ panics = <<>>
  /\ halted = {}
  /\ uaf = FALSE
  /\ probe = NoProbe

\* A panic raised by context ctx at the given site (on guard g, 0 when no
\* guard is involved): it is recorded and ends the context.
Panic(ctx, site, g) ==
  /\ panics' = Append(panics, [ctx |-> ctx, site |-> site, guard |-> g])
  /\ halted' = halted \cup {ctx}


\* ------------------------------------------------------------- EventState
\* Mutant of SlotAfterTake: the box is read out of the slot without take(),
\* so the slot keeps it.
SlotAfterRead(slot) == slot

\* Option::take on the ownership slot: what the slot holds afterwards.
SlotAfterTake(slot) == NoneBox

\* Mutant of embed_event_handler: the box is leaked instead of stored, the
\* slot stays None.
embed_event_handler_leaks(hp, h) ==
  [site |-> "", heap |-> hp, overlapped |-> as_overlapped(StateAddr(h))]

\* Mutant of embed_event_handler: the box is stored in the slot but its
\* allocation is released when embed returns (no transfer of ownership).
embed_event_handler_drops(hp, h) ==
  [site |-> "", heap |-> [hp EXCEPT ![h].slot = BoxOf(h), ![h].alive = FALSE],
   overlapped |-> as_overlapped(StateAddr(h))]

\* Mutant of embed_event_handler: no assert, the box is stored over whatever
\* the slot holds.
embed_event_handler_unchecked(hp, h) ==
  [site |-> "", heap |-> [hp EXCEPT ![h].slot = BoxOf(h)],
   overlapped |-> as_overlapped(StateAddr(h))]

\* EventState::embed_event_handler for the box of handler h: the assert that
\* the slot is empty, the store of the box into its own EventState, and the
\* address of the embedded OVERLAPPED.  A failed assert unwinds and drops the
\* box passed in.
embed_event_handler(hp, h) ==
  IF hp[h].slot # NoneBox
    THEN [site |-> "embed_assert", heap |-> [hp EXCEPT ![h].alive = FALSE], overlapped |-> None]
    ELSE [site |-> "", heap |-> [hp EXCEPT ![h].slot = BoxOf(h)],
          overlapped |-> as_overlapped(StateAddr(h))]

\* Mutant of extract_event_handler: the box is rebuilt from the EventState's
\* address whatever the slot holds, so an empty slot still yields a handler.
extract_event_handler_rebuilds(hp, overlapped) ==
  {[site |-> "", heap |-> [hp EXCEPT ![h].slot = NoneBox], box |-> BoxOf(h), uaf |-> ~hp[h].alive] :
     h \in AnchorAt(from_overlapped(overlapped))}

\* EventState::extract_event_handler: the possible results of recovering the
\* handler box from a record address.  from_overlapped may panic; the slot is
\* taken and unwrapped (panic when it is None).  Dereferencing an EventState
\* that is no longer allocated is undefined behaviour: the read may see None
\* or any stale box.
extract_event_handler(hp, overlapped) ==
  LET state == from_overlapped(overlapped)
      hs    == AnchorAt(state)
  IN  IF state = Fatal
        THEN {[site |-> "container_of_ptr", heap |-> hp, box |-> NoneBox, uaf |-> FALSE]}
      ELSE IF hs = {} \/ \E h \in hs : ~hp[h].alive
        THEN {[site |-> "extract_unwrap", heap |-> hp, box |-> NoneBox, uaf |-> TRUE]}
             \cup {[site |-> "", heap |-> hp, box |-> BoxOf(h2), uaf |-> TRUE] : h2 \in Handlers}
      ELSE LET h == CHOOSE x \in hs : TRUE
           IN  IF hp[h].slot = NoneBox
                 THEN {[site |-> "extract_unwrap", heap |-> hp, box |-> NoneBox, uaf |-> FALSE]}
                 ELSE {[site |-> "", heap |-> [hp EXCEPT ![h].slot = SlotAfterTake(hp[h].slot)],
                        box |-> hp[h].slot, uaf |-> FALSE]}

\* Mutant of downcast_ok: the pointer cast without the type assert.
downcast_unchecked(box, tag) == TRUE

\* EventState::downcast_event_handler::<T>: the runtime type identity of the
\* box against the tag T.
downcast_ok(box, tag) == box.vtable = tag

\* What a handler's complete() prints: PipeRead its text, AfdPoll its bits.
CompletionOutput(hp, box, g) ==
  LET h == CHOOSE x \in HandlerAt(box.ptr) : TRUE
  IN  [handler |-> h, kind |-> box.vtable,
       text |-> IF box.vtable = "PipeRead" THEN hp[h].text ELSE "",
       bits |-> IF box.vtable = "AfdPoll" THEN hp[h].bits ELSE 0,
       guard |-> g]

\* Dropping a handler box frees its allocation (its EventState with it).
Free(hp, ptr) == [h \in Handlers |-> IF Base(h) = ptr THEN [hp[h] EXCEPT !.alive = FALSE] ELSE hp[h]]

\* The guard (ghost: latest dispatch) an address was handed out by.
GuardOfAddr(a) ==
  LET gs == {g \in GuardIds : G(g).addr = a}
  IN  IF gs = {} THEN <<0, 0>> ELSE CHOOSE g \in gs : \A g2 \in gs : g2[2] <= g[2]

\* ---------------------------------------------------------------- Dispatch
\* Dispatch::new: the guard holding the record address and the type tag.
\* The other fields record the guard's history: the addresses overlapped()
\* returned (seen), the external call's result (io), which resolution ran
\* (resolved), how many resolutions were attempted (attempts), whether the
\* destructor ran (dropped), the handler failed() returned (ret), the address
\* it was created with (addr), and whether the handler had already been
\* consumed by complete() when the guard was resolved (late).
NewDispatch(overlapped, h) ==
  [overlapped |-> overlapped, tag |-> Kind(h),
   io |-> "none", resolved |-> "none", attempts |-> 0, dropped |-> FALSE,
   seen |-> {}, ret |-> 0, addr |-> overlapped, late |-> FALSE]

\* Mutant of guard_unwrap_panics: the address taken without the unwrap (as
\* with `if let Some(..)`), so that a repeated resolution passes silently.
guard_unwrap_ignored(gv) == FALSE

\* Option::take().unwrap() on the guard's address: panics when it is None.
guard_unwrap_panics(gv) == gv.overlapped = None

\* The caller's protocol (the usage shown in main.rs): pending() after the
\* external call accepted the operation, failed() otherwise.  A guard whose
\* address an earlier resolution already took may be resolved again by
\* mistake; that attempt meets the unwrap.
MayCallPending(g) ==
  /\ g \in GuardIds
  /\ \/ G(g).overlapped = None
     \/ ~G(g).dropped /\ G(g).io = "pending"

\* Mutant of MayCallFailed: failed() called whatever the external call
\* returned.
MayCallFailedAlways(g) ==
  /\ g \in GuardIds
  /\ \/ G(g).overlapped = None
     \/ ~G(g).dropped

MayCallFailed(g) ==
  /\ g \in GuardIds
  /\ \/ G(g).overlapped = None
     \/ ~G(g).dropped /\ G(g).io # "pending"

\* Mutant of drop_panics: a destructor that never checks the address.
drop_panics_silent(gv) == FALSE

\* impl Drop for Dispatch: panics when the address is still held.
drop_panics(gv) == gv.overlapped # None

\* EventDispatch::dispatch / EventState::dispatch on a box the caller owns.
DispatchHandler(h) ==
  /\ "caller" \notin halted
  /\ h \in owned
  /\ Dispatched(Handlers) < MaxDispatch
  /\ LET e == embed_event_handler(heap, h)
     IN  /\ heap' = e.heap
         /\ owned' = owned \ {h}
         /\ IF e.site # ""
              THEN /\ Panic("caller", e.site, <<h, 0>>)
                   /\ UNCHANGED guards
              ELSE /\ guards' = [guards EXCEPT ![h] = Append(@, NewDispatch(e.overlapped, h))]
                   /\ UNCHANGED <<panics, halted>>
  /\ UNCHANGED <<succeeded_events, completed, uaf, probe>>

\* Mutant of Overlapped: the address is taken out of the guard (take())
\* instead of copied.
OverlappedTakes(g) ==
  /\ "caller" \notin halted
  /\ g \in GuardIds
  /\ ~G(g).dropped
  /\ G(g).overlapped # None
  /\ guards' = [guards EXCEPT ![g[1]][g[2]] =
                  [G(g) EXCEPT !.seen = @ \cup {G(g).overlapped}, !.overlapped = None]]
  /\ UNCHANGED <<heap, owned, succeeded_events, completed, uaf, panics, halted, probe>>

\* Dispatch::overlapped: unwraps the address and returns it; the guard is
\* not consumed.
Overlapped(g) ==
  /\ "caller" \notin halted
  /\ g \in GuardIds
  /\ ~G(g).dropped
  /\ IF G(g).overlapped = None
       THEN /\ Panic("caller", "overlapped_unwrap", g)
            /\ UNCHANGED guards
       ELSE /\ guards' = [guards EXCEPT ![g[1]][g[2]].seen = @ \cup {G(g).overlapped}]
            /\ UNCHANGED <<panics, halted>>
  /\ UNCHANGED <<heap, owned, succeeded_events, completed, uaf, probe>>

\* The external call of the usage in main.rs: the caller hands an address it
\* got from overlapped() to the API, which either accepts the operation (a
\* completion will be reported for the address) or fails synchronously.
StartIo(g, a, r) ==
  /\ "caller" \notin halted
  /\ g \in GuardIds
  /\ ~G(g).dropped
  /\ G(g).io = "none"
  /\ a \in G(g).seen
  /\ guards' = [guards EXCEPT ![g[1]][g[2]].io = r]
  /\ succeeded_events' = IF r = "pending" THEN succeeded_events \cup {a} ELSE succeeded_events
  /\ UNCHANGED <<heap, owned, completed, panics, halted, uaf, probe>>

\* Mutant of Pending: pending() converts the address back to its EventState
\* (what the comment in pending() warns against) and reads it.
PendingReadsState(g) ==
  /\ "caller" \notin halted
  /\ MayCallPending(g)
  /\ ~guard_unwrap_panics(G(g))
  /\ guards' = [guards EXCEPT ![g[1]][g[2]] =
                  [G(g) EXCEPT !.overlapped = None, !.resolved = "pending",
                               !.attempts = @ + 1, !.dropped = TRUE,
                               !.late = ~heap[g[1]].alive]]
  /\ uaf' = (uaf \/ \E h \in AnchorAt(from_overlapped(G(g).overlapped)) : ~heap[h].alive)
  /\ UNCHANGED <<heap, owned, succeeded_events, completed, panics, halted, probe>>

\* Dispatch::pending: take and unwrap the address, nothing else; the consumed
\* guard is dropped at the end of the call.
Pending(g) ==
  /\ "caller" \notin halted
  /\ MayCallPending(g)
  /\ IF guard_unwrap_panics(G(g))
       THEN /\ Panic("caller", "pending_unwrap", g)
            /\ guards' = [guards EXCEPT ![g[1]][g[2]].attempts = @ + 1]
       ELSE LET gv == [G(g) EXCEPT !.overlapped = None, !.resolved = "pending",
                                   !.attempts = @ + 1, !.late = ~heap[g[1]].alive]
            IN  /\ guards' = [guards EXCEPT ![g[1]][g[2]] = [gv EXCEPT !.dropped = TRUE]]
                /\ IF drop_panics(gv)
                     THEN Panic("caller", "drop", g)
                     ELSE UNCHANGED <<panics, halted>>
  /\ UNCHANGED <<heap, owned, succeeded_events, completed, uaf, probe>>


\* Mutant of Failed: undispatch written like complete, so that the recovered
\* handler's complete() runs (and consumes it) instead of being returned.
FailedRunsCompletion(g) ==
  /\ "caller" \notin halted
  /\ MayCallFailed(g)
  /\ ~guard_unwrap_panics(G(g))
  /\ \E o \in extract_event_handler(heap, G(g).overlapped) :
       /\ o.site = ""
       /\ guards' = [guards EXCEPT ![g[1]][g[2]] =
                       [G(g) EXCEPT !.overlapped = None, !.resolved = "failed",
                                    !.attempts = @ + 1, !.dropped = TRUE]]
       /\ completed' = LET out == CompletionOutput(o.heap, o.box, g)
                       IN  [completed EXCEPT ![out.handler] = Append(@, out)]
       /\ heap' = Free(o.heap, o.box.ptr)
  /\ UNCHANGED <<owned, succeeded_events, panics, halted, uaf, probe>>

\* Mutant of Failed: the address is unwrapped in place and cleared only after
\* undispatch returned, so that a panic inside undispatch unwinds through a
\* guard that still holds it, whose destructor panics too.
FailedClearsLate(g) ==
  /\ "caller" \notin halted
  /\ MayCallFailed(g)
  /\ ~guard_unwrap_panics(G(g))
  /\ \E o \in extract_event_handler(heap, G(g).overlapped) :
       LET ok  == o.site = "" /\ downcast_ok(o.box, G(g).tag)
           gv  == [G(g) EXCEPT !.overlapped = IF ok THEN None ELSE @, !.resolved = "failed",
                                !.attempts = @ + 1, !.dropped = TRUE]
           got == IF ok THEN CHOOSE x \in HandlerAt(o.box.ptr) : TRUE ELSE 0
           first == [ctx |-> "caller", site |-> IF o.site # "" THEN o.site ELSE "downcast_assert",
                     guard |-> g]
       IN  /\ guards' = [guards EXCEPT ![g[1]][g[2]] = [gv EXCEPT !.ret = got]]
           /\ uaf' = (uaf \/ o.uaf)
           /\ heap' = IF o.site = "" /\ ~ok THEN Free(o.heap, o.box.ptr) ELSE o.heap
           /\ owned' = IF ok THEN owned \cup {got} ELSE owned
           /\ IF ok THEN UNCHANGED <<panics, halted>>
              ELSE /\ panics' = panics \o <<first, [ctx |-> "caller", site |-> "drop", guard |-> g]>>
                   /\ halted' = halted \cup {"caller"}
  /\ UNCHANGED <<succeeded_events, completed, probe>>

\* Dispatch::failed: take and unwrap the address, then EventState::undispatch:
\* recover the box from the address and narrow it to the tagged type.  The
\* box goes back to the caller; a failed type assert unwinds and drops it.
\* The consumed guard is dropped at the end of the call (also when unwinding).
Failed(g) ==
  /\ "caller" \notin halted
  /\ MayCallFailed(g)
  /\ IF guard_unwrap_panics(G(g))
       THEN /\ Panic("caller", "failed_unwrap", g)
            /\ guards' = [guards EXCEPT ![g[1]][g[2]].attempts = @ + 1]
            /\ UNCHANGED <<heap, owned, uaf>>
       ELSE \E o \in extract_event_handler(heap, G(g).overlapped) :
              LET gv  == [G(g) EXCEPT !.overlapped = None, !.resolved = "failed",
                                     !.attempts = @ + 1, !.late = ~heap[g[1]].alive]
                  ok  == o.site = "" /\ downcast_ok(o.box, gv.tag)
                  got == IF ok THEN CHOOSE x \in HandlerAt(o.box.ptr) : TRUE ELSE 0
              IN  /\ guards' = [guards EXCEPT ![g[1]][g[2]] = [gv EXCEPT !.dropped = TRUE, !.ret = got]]
                  /\ uaf' = (uaf \/ o.uaf)
                  /\ heap' = IF o.site = "" /\ ~ok THEN Free(o.heap, o.box.ptr) ELSE o.heap
                  /\ owned' = IF ok THEN owned \cup {got} ELSE owned
                  /\ IF o.site # "" THEN Panic("caller", o.site, g)
                     ELSE IF ~ok THEN Panic("caller", "downcast_assert", g)
                     ELSE IF drop_panics(gv) THEN Panic("caller", "drop", g)
                     ELSE UNCHANGED <<panics, halted>>
  /\ UNCHANGED <<succeeded_events, completed, probe>>

\* The caller lets go of a guard it still holds: impl Drop for Dispatch.
DropGuard(g) ==
  /\ "caller" \notin halted
  /\ g \in GuardIds
  /\ ~G(g).dropped
  /\ guards' = [guards EXCEPT ![g[1]][g[2]].dropped = TRUE]
  /\ IF drop_panics(G(g))
       THEN Panic("caller", "drop", g)
       ELSE UNCHANGED <<panics, halted>>
  /\ UNCHANGED <<heap, owned, succeeded_events, completed, uaf, probe>>

\* The caller drops a handler box that failed() gave back (the end of main).
DropHandler(h) ==
  /\ "caller" \notin halted
  /\ h \in owned
  /\ \E g \in GuardIds : G(g).ret = h
  /\ owned' = owned \ {h}
  /\ heap' = Free(heap, Base(h))
  /\ UNCHANGED <<guards, succeeded_events, completed, panics, halted, uaf, probe>>

\* EventState::complete, called by the consumer for an address the external
\* API reports as completed: recover the box, run the handler's complete(),
\* which consumes (frees) the handler.
Complete(a) ==
  /\ "consumer" \notin halted
  /\ a \in succeeded_events
  /\ succeeded_events' = succeeded_events \ {a}
  /\ \E o \in extract_event_handler(heap, a) :
       /\ IF o.site # ""
            THEN /\ Panic("consumer", o.site, <<0, 0>>)
                 /\ heap' = o.heap
                 /\ uaf' = (uaf \/ o.uaf)
                 /\ UNCHANGED completed
            ELSE /\ completed' = LET out == CompletionOutput(o.heap, o.box, GuardOfAddr(a))
                                 IN  [completed EXCEPT ![out.handler] = Append(@, out)]
                 /\ heap' = Free(o.heap, o.box.ptr)
                 /\ uaf' = (uaf \/ o.uaf \/ \E h \in HandlerAt(o.box.ptr) : ~o.heap[h].alive)
                 /\ UNCHANGED <<panics, halted>>
  /\ UNCHANGED <<owned, guards, probe>>

Next ==
  \/ \E h \in Handlers : DispatchHandler(h)
  \/ \E g \in Handlers \X (1..MaxDispatch) : Overlapped(g)
  \/ \E g \in Handlers \X (1..MaxDispatch) : \E a \in UNION {G(g2).seen : g2 \in GuardIds} :
       \E r \in {"pending", "failed"} : StartIo(g, a, r)
  \/ \E g \in Handlers \X (1..MaxDispatch) : Pending(g)
  \/ \E g \in Handlers \X (1..MaxDispatch) : Failed(g)
  \/ \E g \in Handlers \X (1..MaxDispatch) : DropGuard(g)
  \/ \E h \in Handlers : DropHandler(h)
  \/ \E a \in succeeded_events : Complete(a)

Spec == Init /\ [][Next]_vars

\* ------------------------------------------------- breaches of the contract
\* The operations above follow the usage main.rs shows.  The functions are
\* also reachable outside it: embed_event_handler through a box whose state()
\* is an EventState that is already armed (an aliasing box, made with unsafe
\* code), and the unsafe EventState::complete with an address the external
\* API reports although it had refused the operation.

\* EventState::dispatch on a box aliasing handler h while h is embedded: the
\* same code as DispatchHandler, entered with the slot occupied.
DispatchArmed(h) ==
  /\ ~uaf
  /\ "caller" \notin halted
  /\ heap[h].alive
  /\ heap[h].slot # NoneBox
  /\ LET e == embed_event_handler(heap, h)
     IN  /\ heap' = e.heap
         /\ IF e.site # ""
              THEN /\ Panic("caller", e.site, <<h, 0>>)
                   /\ UNCHANGED guards
              ELSE /\ guards' = [guards EXCEPT ![h] = Append(@, NewDispatch(e.overlapped, h))]
                   /\ UNCHANGED <<panics, halted>>
  /\ UNCHANGED <<owned, succeeded_events, completed, uaf, probe>>

\* The addresses the external call was given and refused.
RefusedAddrs == {G(g).addr : g \in {x \in GuardIds : G(x).io = "failed"}}

\* EventState::complete called for a refused address (the same code as
\* Complete).
SpuriousComplete(a) ==
  /\ ~uaf
  /\ "consumer" \notin halted
  /\ a \in RefusedAddrs
  /\ \E o \in extract_event_handler(heap, a) :
       /\ IF o.site # ""
            THEN /\ Panic("consumer", o.site, <<0, 0>>)
                 /\ heap' = o.heap
                 /\ uaf' = (uaf \/ o.uaf)
                 /\ UNCHANGED completed
            ELSE /\ completed' = LET out == CompletionOutput(o.heap, o.box, GuardOfAddr(a))
                                 IN  [completed EXCEPT ![out.handler] = Append(@, out)]
                 /\ heap' = Free(o.heap, o.box.ptr)
                 /\ uaf' = (uaf \/ o.uaf \/ \E h \in HandlerAt(o.box.ptr) : ~o.heap[h].alive)
                 /\ UNCHANGED <<panics, halted>>
  /\ UNCHANGED <<owned, guards, succeeded_events, probe>>

\* A behaviour is followed up to its first step with undefined behaviour:
\* what the program does after it is not defined.
NextMisuse ==
  \/ \E h \in Handlers : ~uaf /\ DispatchHandler(h)
  \/ \E g \in Handlers \X (1..MaxDispatch) : ~uaf /\ Overlapped(g)
  \/ \E g \in Handlers \X (1..MaxDispatch) : \E a \in UNION {G(g2).seen : g2 \in GuardIds} :
       \E r \in {"pending", "failed"} : ~uaf /\ StartIo(g, a, r)
  \/ \E g \in Handlers \X (1..MaxDispatch) : ~uaf /\ Pending(g)
  \/ \E g \in Handlers \X (1..MaxDispatch) : ~uaf /\ Failed(g)
  \/ \E g \in Handlers \X (1..MaxDispatch) : ~uaf /\ DropGuard(g)
  \/ \E h \in Handlers : ~uaf /\ DropHandler(h)
  \/ \E a \in succeeded_events : ~uaf /\ Complete(a)
  \/ \E h \in Handlers : DispatchArmed(h)
  \/ \E a \in RefusedAddrs : SpuriousComplete(a)

SpecMisuse == Init /\ [][NextMisuse]_vars


\* ------------------------------------------------- ContainerOf, called directly
\* member_offset and container_of_ptr are generic over the container and
\* member types: a type pair enters them only through size_of, align_of and
\* the address member() returns.  The pairs tried: container sizes and
\* alignments, the member's offset from the container's start (negative or
\* past the end when member() returns a reference to something outside
\* self), and the member's size.
MaxAddr == 48

MaxCalls == 2

Layouts ==
  [size : {16, 32}, align : {4, 8}, field : {-8, 0, 8, 16, 24, 32}, msize : {8, 16}]

\* The program's main state stays as constructed; a type pair and a member
\* address are chosen.
InitContainerOf ==
  /\ heap = [h \in Handlers |->
               [alive |-> TRUE, text |-> Text(h), bits |-> Bits(h), slot |-> NoneBox]]
  /\ owned = Handlers
  /\ guards = [h \in Handlers |-> <<>>]
  /\ succeeded_events = {}
  /\ completed = [h \in Handlers |-> <<>>]
  /\ panics = <<>>
  /\ halted = {}
  /\ uaf = FALSE
  /\ probe \in [layout : Layouts \cup {EventStateLayout}, member : 0..MaxAddr,
                offsets : {<<>>}, containers : {<<>>}]

\* A call of Self::member_offset().
CallMemberOffset ==
  /\ Len(probe.offsets) < MaxCalls
  /\ probe' = [probe EXCEPT !.offsets = Append(@, member_offset(probe.layout))]
  /\ UNCHANGED <<heap, owned, guards, succeeded_events, completed, panics, halted, uaf>>

\* A call of Self::container_of_ptr(member).
CallContainerOfPtr ==
  /\ Len(probe.containers) < MaxCalls
  /\ probe' = [probe EXCEPT !.containers = Append(@, container_of_ptr(probe.layout, probe.member))]
  /\ UNCHANGED <<heap, owned, guards, succeeded_events, completed, panics, halted, uaf>>

NextContainerOf ==
  \/ CallMemberOffset
  \/ CallContainerOfPtr

SpecContainerOf == InitContainerOf /\ [][NextContainerOf]_vars

\* ------------------------------------------------------------------ claims
Armed(h) == heap[h].slot # NoneBox

\* The number of times complete() ran for the operation guard g started.
Runs(g) == Cardinality({i \in 1..Len(completed[g[1]]) : completed[g[1]][i].guard = g})

\* C1: a handler's completion runs at most once over its lifetime; for a guard
\* resolved as failed it never runs, for a guard resolved as pending whose
\* address was completed it has run exactly once, and it runs only for an
\* operation the external call accepted, never for one resolved as failed.
C1_CompletionAtMostOnce ==
  /\ \A h \in Handlers : Len(completed[h]) <= 1
  /\ \A g \in GuardIds :
       /\ G(g).resolved = "failed" => Runs(g) = 0
       /\ (G(g).resolved = "pending" /\ G(g).addr \notin succeeded_events) => Runs(g) = 1
       /\ Runs(g) > 0 => (G(g).io = "pending" /\ G(g).resolved # "failed")

\* Both paths taken: one guard resolved as failed (no run), a later guard
\* resolved as pending and completed (one run).
C1_Witness ==
  \E g1, g2 \in GuardIds :
    /\ G(g1).resolved = "failed" /\ Runs(g1) = 0
    /\ G(g2).resolved = "pending" /\ Runs(g2) = 1

\* C2: a guard destroyed while neither pending() nor failed() has run on it
\* has raised the destructor's panic.
C2_UnresolvedDropIsFatal ==
  \A g \in GuardIds :
    (G(g).dropped /\ G(g).resolved = "none") =>
      \E i \in 1..Len(panics) : panics[i] = [ctx |-> "caller", site |-> "drop", guard |-> g]

\* An unresolved guard has been discarded (after the external call failed).
C2_Witness ==
  \E g \in GuardIds :
    /\ G(g).dropped /\ G(g).resolved = "none" /\ G(g).io = "failed"
    /\ panics # <<>>


\* C3: once pending() or failed() has run on a guard its address is gone, and
\* every further pending() or failed() on that guard panics at the unwrap:
\* the first resolution stands, nothing is recovered or returned, and heap,
\* ownership, completions and the accepted addresses are left as they were.
C3_SecondResolutionIsFatal ==
  [][\A g \in GuardIds :
       LET gv  == G(g)
           gv2 == guards'[g[1]][g[2]]
       IN  /\ gv.resolved # "none" => (gv.overlapped = None /\ gv2.resolved = gv.resolved)
           /\ (gv2.attempts > gv.attempts /\ gv.resolved # "none") =>
                /\ gv2.overlapped = None /\ gv2.ret = gv.ret
                /\ heap' = heap /\ owned' = owned /\ completed' = completed
                /\ succeeded_events' = succeeded_events /\ uaf' = uaf
                /\ \E s \in {"pending_unwrap", "failed_unwrap"} :
                     panics' = Append(panics, [ctx |-> "caller", site |-> s, guard |-> g])
    ]_vars

\* failed() was attempted on a guard already resolved as pending: the unwrap
\* panicked and the handler is still embedded in its EventState.
C3_Witness ==
  \E g \in GuardIds :
    /\ G(g).resolved = "pending" /\ G(g).attempts = 2 /\ Armed(g[1])
    /\ \E i \in 1..Len(panics) : panics[i] = [ctx |-> "caller", site |-> "failed_unwrap", guard |-> g]


\* What the completion of the operation guard g started must print: the
\* handler's own kind and the payload it was constructed with.
ExpectedOutput(g) ==
  [handler |-> g[1], kind |-> Kind(g[1]),
   text |-> IF Kind(g[1]) = "PipeRead" THEN Text(g[1]) ELSE "",
   bits |-> IF Kind(g[1]) = "AfdPoll" THEN Bits(g[1]) ELSE 0,
   guard |-> g]

\* C4: after a guard was resolved as pending and complete() was called with
\* its address, the completion of that same handler has run exactly once and
\* saw the payload the handler was constructed with; no operation changes the
\* payload of a handler that is still allocated.
C4_PendingThenCompleteRunsOnce ==
  /\ \A g \in GuardIds :
       (G(g).resolved = "pending" /\ G(g).addr \notin succeeded_events) =>
         completed[g[1]] = <<ExpectedOutput(g)>>
  /\ \A h \in Handlers :
       heap[h].alive => (heap[h].text = Text(h) /\ heap[h].bits = Bits(h))

\* The completion of PipeRead "foo" ran after its guard was resolved as
\* pending (not the other way round), and the handler is consumed.
C4_Witness ==
  \E g \in GuardIds :
    /\ g[1] = 1 /\ G(g).resolved = "pending" /\ ~G(g).late
    /\ Len(completed[1]) = 1 /\ completed[1][1].text = "foo"
    /\ ~heap[1].alive


\* C5: the step in which failed() resolves a guard returns the very handler
\* that was dispatched to the caller, still allocated, with the payload of
\* construction, with its completion never run, with its EventState's slot
\* back to None, and without any panic.
C5_FailedReturnsHandlerIntact ==
  [][\A g \in GuardIds :
       LET h   == g[1]
           gv2 == guards'[g[1]][g[2]]
       IN  (G(g).resolved = "none" /\ gv2.resolved = "failed") =>
             /\ gv2.ret = h /\ h \in owned'
             /\ heap'[h].alive /\ heap'[h].slot = NoneBox
             /\ heap'[h].text = Text(h) /\ heap'[h].bits = Bits(h)
             /\ completed'[h] = <<>>
             /\ panics' = panics
    ]_vars

\* AfdPoll{bits: 1234} was dispatched and failed() gave it back: the caller
\* holds it, bits is still 1234, nothing was printed, the slot is empty.
C5_Witness ==
  /\ <<2, 1>> \in GuardIds
  /\ G(<<2, 1>>).resolved = "failed" /\ G(<<2, 1>>).ret = 2
  /\ 2 \in owned /\ heap[2].bits = 1234 /\ heap[2].slot = NoneBox
  /\ completed[2] = <<>>


\* C6: with the consumer on another context, complete() may run before or
\* between the caller's steps.  No step ever dereferences a freed EventState
\* or handler; every accepted address that was completed ran its handler's
\* completion exactly once, whether or not pending() had been called yet; and
\* the step in which pending() resolves a guard changes nothing but the guard.
C6_PendingRacesCompleteSafely ==
  /\ [](~uaf)
  /\ [](\A g \in GuardIds :
          (G(g).io = "pending" /\ G(g).addr \notin succeeded_events) =>
            completed[g[1]] = <<ExpectedOutput(g)>>)
  /\ [][\A g \in GuardIds :
          (G(g).resolved = "none" /\ guards'[g[1]][g[2]].resolved = "pending") =>
            /\ heap' = heap /\ owned' = owned /\ completed' = completed
            /\ succeeded_events' = succeeded_events
            /\ uaf' = uaf /\ panics' = panics
       ]_vars

\* complete() ran and freed the handler entirely before pending() was called
\* on the guard for the same address.
C6_Witness ==
  \E g \in GuardIds :
    /\ G(g).resolved = "pending" /\ G(g).late
    /\ ~heap[g[1]].alive /\ Runs(g) = 1 /\ ~uaf


\* Who can recover the handler of h's EventState: the caller holding the box,
\* the caller through failed() on a guard it still holds, the consumer
\* through complete() on an address the external call accepted.
CallerOwns(h) == h \in owned

GuardMayRecover(h) ==
  \E g \in GuardIds :
    g[1] = h /\ ~G(g).dropped /\ G(g).overlapped = AddrOf(h) /\ MayCallFailed(g)

ConsumerMayRecover(h) == AddrOf(h) \in succeeded_events

\* A guard the caller still holds unresolved.
Unresolved(g) == ~G(g).dropped /\ G(g).overlapped # None

ExclusiveRecovery ==
  \A h \in Handlers :
    /\ ~(GuardMayRecover(h) /\ ConsumerMayRecover(h))
    /\ ~(CallerOwns(h) /\ ConsumerMayRecover(h))
    /\ ~(CallerOwns(h) /\ GuardMayRecover(h))

CanReturnToEmpty(h) == ENABLED (Next /\ heap'[h].slot = NoneBox)

\* C8 as stated: from every state in which an EventState is Armed, failed()
\* by the guard holder or complete() by the consumer can return it to Empty,
\* also after its guard was discarded unresolved.
C8_Original_AlwaysRecoverable ==
  \A h \in Handlers : Armed(h) => CanReturnToEmpty(h)

\* C8 (amended): an Armed EventState can be returned to Empty by failed() or
\* complete() as long as no panic has been raised, and after a panic (such as
\* the one of a guard discarded unresolved) whenever the external call had
\* accepted its address, so that the consumer holds it.
C8_RecoverableUnlessDiscarded ==
  \A h \in Handlers :
    (Armed(h) /\ (panics = <<>> \/ (ConsumerMayRecover(h) /\ "consumer" \notin halted)))
      => CanReturnToEmpty(h)

\* A guard was discarded unresolved after the external call accepted its
\* address: the EventState is Armed and complete() can still empty it.
C8_Witness ==
  \E g \in GuardIds :
    /\ G(g).dropped /\ G(g).resolved = "none"
    /\ Armed(g[1]) /\ ConsumerMayRecover(g[1]) /\ CanReturnToEmpty(g[1])


\* C9: for two different handlers whose guards were both resolved as pending,
\* whichever address is completed first, each handler's completion prints
\* nothing before its own address is completed and exactly its own payload
\* once after; and a step that runs one handler's completion leaves every
\* other handler's allocation, slot, payload and output as they were.
C9_IndependentCompletions ==
  /\ [](\A g1, g2 \in GuardIds :
          (g1[1] # g2[1] /\ G(g1).resolved = "pending" /\ G(g2).resolved = "pending") =>
            \A g \in {g1, g2} :
              completed[g[1]] = IF G(g).addr \in succeeded_events
                                  THEN <<>> ELSE <<ExpectedOutput(g)>>)
  /\ [][\A h \in Handlers :
          completed'[h] # completed[h] =>
            \A h2 \in Handlers \ {h} :
              heap'[h2] = heap[h2] /\ completed'[h2] = completed[h2]
       ]_vars

\* Both handlers were dispatched and resolved as pending; the second one's
\* address was completed first: it printed its own payload, while the first
\* handler is still embedded, untouched, with its completion not yet run.
C9_Witness ==
  /\ <<1, 1>> \in GuardIds /\ <<2, 1>> \in GuardIds
  /\ G(<<1, 1>>).resolved = "pending" /\ G(<<2, 1>>).resolved = "pending"
  /\ completed[2] = <<ExpectedOutput(<<2, 1>>)>> /\ completed[2][1].bits = 1234
  /\ completed[1] = <<>> /\ Armed(1) /\ heap[1].alive /\ heap[1].text = "foo"
  /\ AddrOf(1) \in succeeded_events


\* The operation guard g started has ended with the handler recovered: by
\* failed(), or by complete() of its address.
Recovered(g) == G(g).resolved = "failed" \/ Runs(g) > 0

\* Handler h has an operation that was dispatched and not yet recovered (in
\* flight, or completed by the external API and not yet passed to complete()).
OperationOpen(h) == \E g \in GuardIds : g[1] = h /\ ~Recovered(g)

\* C10: in every reachable state, the event_handler slot of each EventState is
\* occupied exactly when an operation dispatched for it has not been recovered
\* yet; it is empty before the first dispatch, while the caller holds the box
\* (also after failed() gave it back), and after complete() ran.
C10_SlotOccupiedIffOperationOpen ==
  \A h \in Handlers :
    /\ Armed(h) <=> OperationOpen(h)
    /\ guards[h] = <<>> => ~Armed(h)
    /\ h \in owned => ~Armed(h)
    /\ completed[h] # <<>> => ~Armed(h)

\* Handler 1 went through a failed operation and is dispatched again (slot
\* occupied, operation open); handler 2 was completed (slot empty).
C10_Witness ==
  /\ <<1, 2>> \in GuardIds /\ <<2, 1>> \in GuardIds
  /\ G(<<1, 1>>).resolved = "failed" /\ ~Recovered(<<1, 2>>) /\ Armed(1)
  /\ Runs(<<2, 1>>) = 1 /\ ~Armed(2)


\* A step that embeds handler h: dispatch produced a new guard for it.
EmbedStep(h) == Len(guards'[h]) = Len(guards[h]) + 1

\* A step that recovers handler h: failed() gave it back to the caller, or
\* complete() ran its completion.
RecoverStep(h) ==
  \/ h \in owned' \ owned
  \/ Len(completed'[h]) = Len(completed[h]) + 1

\* A step of guard g that is neither embed nor recover: overlapped() returned
\* the address, pending() resolved the guard, or the guard was discarded.
GuardOnlyStep(g) ==
  /\ g \in GuardIds
  /\ \/ guards'[g[1]][g[2]].seen # G(g).seen
     \/ guards'[g[1]][g[2]].resolved = "pending" /\ G(g).resolved # "pending"
     \/ guards'[g[1]][g[2]].dropped /\ ~G(g).dropped /\ guards'[g[1]][g[2]].resolved = G(g).resolved

\* C11: the slot of an EventState changes only from None to the handler's own
\* box in a step that embeds it, and from that box to None in a step that
\* recovers it (so each armed period ends with one recover); dispatch on an
\* EventState that is already armed always panics, produces no guard and
\* leaves the slot as it was; overlapped(), pending() and the discard of a
\* guard leave every slot unchanged.
C11_SlotTransitions ==
  /\ [][\A h \in Handlers :
          heap'[h].slot # heap[h].slot =>
            \/ heap[h].slot = NoneBox /\ heap'[h].slot = BoxOf(h) /\ EmbedStep(h)
            \/ heap[h].slot = BoxOf(h) /\ heap'[h].slot = NoneBox /\ RecoverStep(h)
       ]_vars
  /\ [](\A h \in Handlers :
          (~uaf /\ heap[h].alive /\ Armed(h) /\ "caller" \notin halted) =>
            /\ ENABLED DispatchArmed(h)
            /\ ~ENABLED (DispatchArmed(h) /\ (panics' = panics \/ guards' # guards
                                              \/ heap'[h].slot # heap[h].slot)))
  /\ [][(panics' # panics /\ panics'[Len(panics')].site = "embed_assert") =>
          /\ guards' = guards
          /\ \A h \in Handlers : heap'[h].slot = heap[h].slot
       ]_vars
  /\ [][(\E g \in GuardIds : GuardOnlyStep(g)) =>
          \A h \in Handlers : heap'[h].slot = heap[h].slot
       ]_vars

\* dispatch was called on the armed handler 1: the assert fired, the slot
\* still holds handler 1's box and no second guard exists; handler 2 went
\* through embed and recover and is empty again.
C11_Witness ==
  /\ panics # <<>> /\ panics[Len(panics)].site = "embed_assert"
  /\ heap[1].slot = BoxOf(1) /\ Len(guards[1]) = 1
  /\ Len(guards[2]) = 1 /\ heap[2].slot = NoneBox /\ G(<<2, 1>>).ret = 2


\* The handler whose EventState a record address belongs to (0 when none).
AnchorOf(a) ==
  LET hs == AnchorAt(from_overlapped(a))
  IN  IF hs = {} THEN 0 ELSE CHOOSE h \in hs : TRUE

\* complete() called for address a ends in the unwrap panic of
\* extract_event_handler and changes nothing else.
SpuriousCompleteIsFatal(a) ==
  /\ SpuriousComplete(a)
  /\ panics' = Append(panics, [ctx |-> "consumer", site |-> "extract_unwrap", guard |-> <<0, 0>>])
  /\ completed' = completed /\ owned' = owned /\ heap' = heap /\ ~uaf'

\* C12: extract_event_handler reached (through complete) for an allocated
\* EventState whose slot is None always panics at the unwrap: no handler is
\* returned, no completion runs, the slot stays None; and in every step
\* without undefined behaviour a handler is given to the caller or to its
\* completion only out of a slot that held it, which the step empties.
C12_RecoverOnEmptyIsFatal ==
  /\ [](\A a \in RefusedAddrs :
          (~uaf /\ "consumer" \notin halted /\ AnchorOf(a) # 0
             /\ heap[AnchorOf(a)].alive /\ ~Armed(AnchorOf(a))) =>
            /\ ENABLED SpuriousComplete(a)
            /\ ~ENABLED (SpuriousComplete(a) /\ ~SpuriousCompleteIsFatal(a)))
  /\ [][\A h \in Handlers :
          (~uaf' /\ RecoverStep(h)) =>
            heap[h].slot = BoxOf(h) /\ heap'[h].slot = NoneBox
       ]_vars

\* failed() gave handler 1 back to the caller, who still holds it; then a
\* completion was reported for its address: the unwrap panicked, nothing ran,
\* the slot is None and the caller's box is untouched.
C12_Witness ==
  /\ panics = <<[ctx |-> "consumer", site |-> "extract_unwrap", guard |-> <<0, 0>>]>>
  /\ ~uaf /\ G(<<1, 1>>).ret = 1 /\ 1 \in owned /\ heap[1].alive /\ ~Armed(1)
  /\ \A h \in Handlers : completed[h] = <<>>


\* overlapped() called on guard g returns the guard's address and changes
\* nothing but the record of the addresses returned.
OverlappedIsReadOnly(g) ==
  /\ Overlapped(g)
  /\ guards' = [guards EXCEPT ![g[1]][g[2]].seen = G(g).seen \cup {AddrOf(g[1])}]
  /\ panics' = panics /\ heap' = heap

\* C13: on a guard that is not resolved, overlapped() can always be called,
\* also after earlier calls; every call returns the address embed produced
\* and changes neither the guard's address nor anything else; after any
\* calls the resolution the protocol asks for still succeeds (pending after
\* an accepted call, failed otherwise, which gives the handler back),
\* dropping the guard is still fatal, and the EventState still holds the
\* same handler (until complete() consumes it, which may come first for an
\* accepted call).
C13_OverlappedReadOnly ==
  \A g \in GuardIds :
    (Unresolved(g) /\ "caller" \notin halted) =>
      /\ ENABLED Overlapped(g)
      /\ ~ENABLED (Overlapped(g) /\ ~OverlappedIsReadOnly(g))
      /\ G(g).seen \subseteq {AddrOf(g[1])}
      /\ G(g).overlapped = AddrOf(g[1])
      /\ G(g).io = "pending" => ENABLED (Pending(g) /\ panics' = panics)
      /\ G(g).io # "pending" => ENABLED (Failed(g) /\ panics' = panics /\ g[1] \in owned')
      /\ ENABLED DropGuard(g) /\ ~ENABLED (DropGuard(g) /\ panics' = panics)
      /\ (G(g).io # "pending" \/ G(g).addr \in succeeded_events) =>
           heap[g[1]].alive /\ heap[g[1]].slot = BoxOf(g[1])

\* overlapped() has been called on the guard of handler 1, the API refused
\* the call, the guard is still unresolved and overlapped() is still enabled.
C13_Witness ==
  /\ <<1, 1>> \in GuardIds /\ Unresolved(<<1, 1>>)
  /\ G(<<1, 1>>).seen = {AddrOf(1)} /\ G(<<1, 1>>).io = "failed"
  /\ ENABLED Overlapped(<<1, 1>>) /\ heap[1].slot = BoxOf(1)


\* The addresses a container of the given layout placed at address c
\* occupies, and those of its member.
AnchorRange(layout, c) == c..(c + layout.size - 1)

RecordRange(layout, c) == (c + layout.field)..(c + layout.field + layout.msize - 1)

RecordWithinAnchor(layout) ==
  \A c \in {layout.align, 8 * layout.align} : RecordRange(layout, c) \subseteq AnchorRange(layout, c)

\* C14: for every type pair, every call of member_offset gives the same
\* result; the call panics exactly when the member's address range is not
\* within the container's, and otherwise returns the member's start address
\* minus the container's.
C14_MemberOffset ==
  \A i \in 1..Len(probe.offsets) :
    /\ probe.offsets[i] = probe.offsets[1]
    /\ probe.offsets[i] = Fatal <=> ~RecordWithinAnchor(probe.layout)
    /\ probe.offsets[i] # Fatal =>
         \A c \in {probe.layout.align, 8 * probe.layout.align} :
           probe.offsets[i] = (c + probe.layout.field) - c

\* member_offset was called twice for EventState / OVERLAPPED: 16 both times.
C14_Witness ==
  /\ probe.layout = EventStateLayout
  /\ probe.offsets = <<16, 16>>


\* The last operation started with address a was resolved by failed(), which
\* gave the handler back; the caller holds the box or has dropped it.
RecoveredByFailed(a) ==
  LET g == GuardOfAddr(a)
  IN  /\ g \in GuardIds
      /\ G(g).resolved = "failed" /\ G(g).ret = g[1]

\* C15: when a completion is reported for an address whose handler failed()
\* already gave back, then, whether the caller still holds the box or has
\* dropped it, complete() ends in the unwrap panic of extract_event_handler,
\* runs no completion and dereferences no freed EventState.
C15_LateCompleteIsFatal ==
  \A a \in RefusedAddrs :
    (RecoveredByFailed(a) /\ ~uaf /\ "consumer" \notin halted) =>
      /\ ENABLED SpuriousComplete(a)
      /\ ~ENABLED (SpuriousComplete(a) /\ ~SpuriousCompleteIsFatal(a))


\* C16: while a record address is outstanding (the EventState is armed; its
\* address is with a guard whose call was not accepted, or with the
\* consumer) the handler's allocation, EventState included, is alive and
\* holds its payload; an allocation is freed only by a step that runs the
\* handler's complete() or in which the caller drops a box failed() gave
\* back; overlapped(), pending() and the drop of a guard free nothing.
C16_ArmedStaysAllocated ==
  /\ [](\A h \in Handlers :
          /\ Armed(h) => heap[h].alive /\ heap[h].text = Text(h) /\ heap[h].bits = Bits(h)
          /\ AddrOf(h) \in succeeded_events => Armed(h)
          /\ (\E g \in GuardIds : g[1] = h /\ Unresolved(g) /\ G(g).io # "pending") => Armed(h))
  /\ [][\A h \in Handlers :
          (heap[h].alive /\ ~heap'[h].alive) =>
            \/ Len(completed'[h]) = Len(completed[h]) + 1
            \/ h \in owned \ owned' /\ \E g \in GuardIds : G(g).ret = h
       ]_vars
  /\ [][(\E g \in GuardIds : GuardOnlyStep(g)) => heap' = heap]_vars

\* Handler 1's guard was resolved as pending and is gone, its address is with
\* the consumer; handler 2's guard is unresolved after overlapped(): both
\* handlers are armed and allocated.
C16_Witness ==
  /\ <<1, 1>> \in GuardIds /\ <<2, 1>> \in GuardIds
  /\ G(<<1, 1>>).resolved = "pending" /\ G(<<1, 1>>).dropped
  /\ AddrOf(1) \in succeeded_events /\ Armed(1) /\ heap[1].alive
  /\ Unresolved(<<2, 1>>) /\ G(<<2, 1>>).seen # {} /\ Armed(2) /\ heap[2].alive


DowncastPanics == {i \in 1..Len(panics) : panics[i].site = "downcast_assert"}

\* C17: every guard carries the type of the handler it was created for; in
\* executions without undefined behaviour the type assert of
\* downcast_event_handler never fails and failed() returns the guard's own
\* handler; and whatever box the recovery finds, failed() never returns a
\* handler whose type differs from the guard's tag: a mismatch ends in the
\* assert's panic with nothing returned.
C17_DowncastNeverMistyped ==
  /\ \A g \in GuardIds : G(g).tag = Kind(g[1])
  /\ DowncastPanics # {} => uaf
  /\ \A g \in GuardIds :
       /\ G(g).ret # 0 => Kind(G(g).ret) = G(g).tag
       /\ (G(g).ret # 0 /\ ~uaf) => G(g).ret = g[1]
  /\ \A i \in DowncastPanics :
       panics[i].guard \in GuardIds /\ G(panics[i].guard).ret = 0

\* failed() returned handler 1 to the caller with the guard's type; for
\* handler 2 the recovery found a box of another type (after a completion
\* consumed the handler): the assert panicked and nothing was returned.
C17_Witness ==
  /\ <<1, 1>> \in GuardIds /\ G(<<1, 1>>).ret = 1 /\ G(<<1, 1>>).tag = "PipeRead"
  /\ panics = <<[ctx |-> "caller", site |-> "downcast_assert", guard |-> <<2, 1>>]>>
  /\ G(<<2, 1>>).ret = 0 /\ G(<<2, 1>>).tag = "AfdPoll"


\* The type pairs whose member lies within the container (member_offset
\* returns).
ValidLayout(layout) == member_offset(layout) # Fatal

\* An address the container type's alignment divides.
Aligned(layout, addr) == addr % layout.align = 0

\* C18 as stated: container_of_ptr panics exactly when the member address is
\* smaller than the offset or the difference is misaligned, and otherwise
\* returns the difference.
C18_Original_FatalOnUnderflowOnly ==
  ValidLayout(probe.layout) =>
    \A i \in 1..Len(probe.containers) :
      LET off  == member_offset(probe.layout)
          addr == probe.member
      IN  /\ probe.containers[i] = Fatal <=>
               (addr < off \/ (addr >= off /\ ~Aligned(probe.layout, addr - off)))
          /\ probe.containers[i] # Fatal => probe.containers[i] = addr - off

\* C18: for a type pair whose member lies within the container,
\* container_of_ptr panics exactly when the member address is not greater
\* than the offset (underflow, or a container at address 0) or the
\* difference is not a multiple of the container's alignment; otherwise it
\* returns member address minus offset, which is positive and aligned; so
\* from a + offset, with a positive and aligned, it returns a.  For a type
\* pair whose member_offset panics it panics too.
C18_ContainerOfPtr ==
  \A i \in 1..Len(probe.containers) :
    LET off  == member_offset(probe.layout)
        addr == probe.member
        c    == probe.containers[i]
    IN  /\ ~ValidLayout(probe.layout) => c = Fatal
        /\ ValidLayout(probe.layout) =>
             /\ c = Fatal <=> (addr <= off \/ ~Aligned(probe.layout, addr - off))
             /\ c # Fatal => c = addr - off /\ c > 0 /\ Aligned(probe.layout, c)
             /\ \A a \in 1..MaxAddr :
                  (Aligned(probe.layout, a) /\ addr = a + off) => c = a

\* container_of_ptr called twice for EventState with the OVERLAPPED at
\* address 40 returned 24 both times.
C18_Witness ==
  /\ probe.layout = EventStateLayout
  /\ probe.member = 40
  /\ probe.containers = <<24, 24>>


\* dispatch() of the box of handler h succeeds: no panic, a new guard with
\* the handler's address, the handler embedded.
RedispatchSucceeds(h) ==
  /\ DispatchHandler(h)
  /\ panics' = panics
  /\ Len(guards'[h]) = Len(guards[h]) + 1
  /\ guards'[h][Len(guards'[h])].overlapped = AddrOf(h)
  /\ heap'[h].slot = BoxOf(h)

\* C19: a handler failed() gave back has an empty EventState and can be
\* dispatched again, the assert of embed passing and a fresh guard being
\* produced, after any number of failed rounds; the operation of a later
\* round behaves like a first one: resolved as failed it returns the same
\* handler and runs no completion, resolved as pending and completed it runs
\* the handler's completion exactly once with its payload; the failed rounds
\* before it run nothing.
C19_RetryAfterFailed ==
  /\ \A g \in GuardIds :
       (G(g).ret = g[1] /\ g[1] \in owned /\ heap[g[1]].alive) =>
         /\ ~Armed(g[1])
         /\ ("caller" \notin halted /\ Dispatched(Handlers) < MaxDispatch) =>
              /\ ENABLED RedispatchSucceeds(g[1])
              /\ ~ENABLED (DispatchHandler(g[1]) /\ ~RedispatchSucceeds(g[1]))
  /\ \A g \in GuardIds :
       g[2] > 1 =>
         /\ \A k \in 1..(g[2] - 1) :
              G(<<g[1], k>>).resolved = "failed" /\ G(<<g[1], k>>).ret = g[1]
                /\ Runs(<<g[1], k>>) = 0
         /\ G(g).resolved = "failed" => G(g).ret = g[1] /\ Runs(g) = 0
         /\ G(g).resolved = "pending" =>
              completed[g[1]] = IF G(g).addr \in succeeded_events
                                  THEN <<>> ELSE <<ExpectedOutput(g)>>
         /\ (Unresolved(g) /\ "caller" \notin halted) =>
              /\ G(g).io = "pending" => ENABLED (Pending(g) /\ panics' = panics)
              /\ G(g).io # "pending" => ENABLED (Failed(g) /\ panics' = panics /\ g[1] \in owned')

\* Handler 1 failed twice and was dispatched a third time; that operation
\* was accepted, resolved as pending and completed: one completion, with the
\* payload "foo", and no panic.
C19_Witness ==
  /\ Len(guards[1]) = 3
  /\ G(<<1, 1>>).resolved = "failed" /\ G(<<1, 2>>).resolved = "failed"
  /\ G(<<1, 3>>).resolved = "pending"
  /\ completed[1] = <<ExpectedOutput(<<1, 3>>)>> /\ completed[1][1].text = "foo"
  /\ panics = <<>>


\* The panics raised by calls on guard g.
PanicsOf(g) == {i \in 1..Len(panics) : panics[i].guard = g}

\* C20: once pending() or failed() has run on a guard, the guard's address is
\* None, so its destructor does not panic: no "drop" panic belongs to a guard
\* a resolution ran on, a guard resolved without panic has none at all, and
\* a failed() that aborted in the recovery or in the type assert left
\* exactly one panic, its own.
C20_DropSilentAfterResolution ==
  \A g \in GuardIds :
    /\ G(g).attempts > 0 =>
         /\ ~drop_panics(G(g))
         /\ \A i \in PanicsOf(g) : panics[i].site # "drop"
         /\ Cardinality(PanicsOf(g)) <= 1
    /\ (G(g).resolved = "pending" /\ G(g).attempts = 1) => G(g).dropped /\ PanicsOf(g) = {}
    /\ (G(g).resolved = "failed" /\ G(g).ret # 0 /\ G(g).attempts = 1) =>
         G(g).dropped /\ PanicsOf(g) = {}
    /\ (G(g).resolved = "failed" /\ G(g).ret = 0) =>
         /\ G(g).dropped
         /\ Cardinality(PanicsOf(g)) = 1
         /\ \A i \in PanicsOf(g) :
              panics[i].site \in {"extract_unwrap", "downcast_assert", "container_of_ptr"}

\* The guard of handler 1 was resolved as pending and dropped in silence;
\* failed() on the guard of handler 2 aborted in the type assert: the guard's
\* address is None and that panic is the only one.
C20_Witness ==
  /\ <<1, 1>> \in GuardIds /\ <<2, 1>> \in GuardIds
  /\ G(<<1, 1>>).resolved = "pending" /\ G(<<1, 1>>).dropped
  /\ G(<<2, 1>>).resolved = "failed" /\ G(<<2, 1>>).ret = 0 /\ G(<<2, 1>>).overlapped = None
  /\ panics = <<[ctx |-> "caller", site |-> "downcast_assert", guard |-> <<2, 1>>]>>

=============================================================================
